---- MODULE Spec2Model ----
(***************************************************************************)
(* Retail App API (src/main.py): product catalogue and cash-on-delivery    *)
(* orders over a document store.                                           *)
(*                                                                         *)
(* Every request handler is one action up to its first store round trip;   *)
(* the handlers that read the document back after writing it               *)
(* (create_product, update_product, create_order, update_order) answer in  *)
(* a second action, so that other requests can run between the two round   *)
(* trips, as they do in the thread pool that serves the handlers.          *)
(*                                                                         *)
(* Text is a tuple of one-character strings, so that truthiness, case      *)
(* folding and substring search are computed; Python's None is the tuple   *)
(* None below, which no text equals.  A JSON body is a record that holds   *)
(* the keys that were sent; a key sent as null is either left out or, for  *)
(* a text field, sent as None.  A datetime is the clock value at which it  *)
(* was taken; the clock advances with every store write that stamps a      *)
(* document, so that a later write carries a later time.  A document that  *)
(* may be missing (find_one's result, a response body) is a sequence of no *)
(* or one document.                                                        *)
(***************************************************************************)
EXTENDS Integers, Sequences, FiniteSets, Bags, TLC

VARIABLES
    product,    \* db["product"]: the documents in the store's natural order
    order,      \* db["order"]
    nextOid,    \* how many ObjectIds the store has generated
    clock,      \* datetime.utcnow(): how many documents have been stamped
    inflight,   \* handlers between their store write and their re-read
    req,        \* the request answered by the last step
    resp        \* the response given to it

vars == <<product, order, nextOid, clock, inflight, req, resp>>

----------------------------------------------------------------------------
(* Bounds of the model *)

MaxClock == 3       \* store writes that stamp a document with the time
MaxInflight == 1    \* handlers suspended between write and re-read

----------------------------------------------------------------------------
(* Values *)

None == <<"None">>

Truthy(s) == s # None /\ s # <<>>

EmptyBody == [k \in {} |-> None]

\* dict d updated with every key of u ({**d, **u}; Mongo's $set)
Merge(d, u) == [x \in DOMAIN d \cup DOMAIN u |-> IF x \in DOMAIN u THEN u[x] ELSE d[x]]

Restrict(d, ks) == [x \in DOMAIN d \cap ks |-> d[x]]

LowerChar(c) ==
    CASE c = "A" -> "a"
      [] c = "B" -> "b"
      [] c = "C" -> "c"
      [] c = "D" -> "d"
      [] c = "E" -> "e"
      [] c = "F" -> "f"
      [] OTHER -> c

Lower(s) == [i \in DOMAIN s |-> LowerChar(s[i])]

\* re.search(q, s, re.I) for a q without metacharacters
RegexMatchI(q, s) ==
    /\ s # None
    /\ \E i \in 0 .. (Len(s) - Len(q)) :
          Lower(SubSeq(s, i + 1, i + Len(q))) = Lower(q)

----------------------------------------------------------------------------
(* Helpers *)

IdLen == 2      \* hex digits of an ObjectId (24 in bson, scaled)

HexChars == {"0", "1", "a", "b", "c", "d", "e", "f", "A", "B", "C", "D", "E", "F"}

\* ObjectId(id_str) does not raise
IsObjectId(id_str) ==
    /\ Len(id_str) = IdLen
    /\ \A i \in 1 .. IdLen : id_str[i] \in HexChars

\* the ObjectId that ObjectId(id_str) builds, as str() prints it
ObjectId(id_str) == Lower(id_str)

\* the n-th ObjectId the store generates
GenDigits == <<"a", "b", "c", "d", "e", "f">>

NewOid(n) == [i \in 1 .. IdLen |-> IF i = IdLen THEN GenDigits[n] ELSE "0"]

IsoFormat(t) == <<"iso", t>>

DateKeys == {"created_at", "updated_at", "placed_at"}

\* doc is find_one's result: <<>> (None) or <<document>>
serialize_doc(doc) ==
    IF doc = <<>> THEN <<>>
    ELSE LET d == doc[1] IN
         << [k \in (DOMAIN d \ {"_id"}) \cup {"id"} |->
                IF k = "id" THEN d["_id"]
                ELSE IF k \in DateKeys THEN IsoFormat(d[k])
                ELSE d[k]] >>

\* os.getenv("ADMIN_KEY", "admin123")
ADMIN_KEY == <<"admin123">>

\* mutant: a request without the header passes the gate
require_admin_mutant(admin_key) == admin_key = None \/ admin_key = ADMIN_KEY

require_admin(admin_key) == admin_key = ADMIN_KEY

----------------------------------------------------------------------------
(* The document store (pymongo collections; database.py's helpers) *)

\* document d matches the query filt: {"in_stock": {"$ne": v}}, {"$or": [{k:
\* {"$regex": q, "$options": "i"}} for the three text keys]}, {key: value}
Matches(d, filt) ==
    /\ "in_stock" \in DOMAIN filt =>
          ("in_stock" \notin DOMAIN d \/ d["in_stock"] # filt["in_stock"]["$ne"])
    /\ "$or" \in DOMAIN filt =>
          \E k \in {"title", "description", "category"} :
              k \in DOMAIN d /\ RegexMatchI(filt["$or"], d[k])
    /\ \A k \in DOMAIN filt \ {"in_stock", "$or"} : k \in DOMAIN d /\ d[k] = filt[k]

\* database.get_documents(name, filt): the matching documents, natural order
get_documents(coll, filt) == SelectSeq(coll, LAMBDA d : Matches(d, filt))

\* collection.find_one({"_id": oid})
find_one(coll, oid) ==
    LET hit == SelectSeq(coll, LAMBDA d : d["_id"] = oid)
    IN  IF hit = <<>> THEN <<>> ELSE <<hit[1]>>

\* mutant: the document is replaced by the update (replace_one for $set)
update_one_mutant(coll, oid, updates) ==
    [i \in DOMAIN coll |->
        IF coll[i]["_id"] = oid THEN Merge([_id |-> oid], updates) ELSE coll[i]]

\* collection.update_one({"_id": oid}, {"$set": updates}): the collection after
update_one(coll, oid, updates) ==
    [i \in DOMAIN coll |->
        IF coll[i]["_id"] = oid THEN Merge(coll[i], updates) ELSE coll[i]]

\* mutant: the result of the update is not looked at
matched_count_mutant(coll, oid) == 1

matched_count(coll, oid) == Cardinality({i \in DOMAIN coll : coll[i]["_id"] = oid})

\* collection.delete_one({"_id": oid}): the collection after
delete_one(coll, oid) == SelectSeq(coll, LAMBDA d : d["_id"] # oid)

\* database.create_document: stamps the document and inserts it
create_document(coll, data, oid, now) ==
    Append(coll, Merge(data, [_id |-> oid, created_at |-> now, updated_at |-> now]))

----------------------------------------------------------------------------
(* Schemas: what pydantic accepts, and the payload it builds *)

TextKeys == {"title", "description", "currency", "category", "image_url",
             "status", "tracking_note", "payment_method"}

\* the keys of body that hold a value (not null)
Given(body) == {k \in DOMAIN body : k \notin TextKeys \/ body[k] # None}

\* mutant: keys the model does not declare are kept (the raw body is used)
model_dump_mutant_raw(body, fields) == Restrict(body, Given(body))

\* mutant: model_dump() without exclude_none, text fields not sent are None
model_dump_mutant_none(body, fields) ==
    [k \in (Given(body) \cap fields) \cup (TextKeys \cap fields) |->
        IF k \in Given(body) THEN body[k] ELSE None]

\* payload.model_dump(exclude_none=True) of a model with the fields `fields`:
\* keys the model does not declare are ignored, null ones are dropped
model_dump_exclude_none(body, fields) == Restrict(body, Given(body) \cap fields)

ProductCreateFields == {"title", "description", "price", "currency", "category",
                        "image_url", "in_stock"}

ProductCreateValid(body) ==
    /\ {"title", "price", "category"} \subseteq Given(body)
    /\ body["price"] >= 0
    /\ "currency" \in DOMAIN body => body["currency"] # None

\* ProductCreate(**body): the declared defaults fill what was not sent
ProductCreate(body) ==
    Merge([description |-> None, currency |-> <<"SYP">>, image_url |-> None,
           in_stock |-> TRUE],
          model_dump_exclude_none(body, ProductCreateFields))

\* schemas.Product, as create_product builds and validates it
ProductSchemaValid(payload) == payload["price"] >= 0

ProductSchema(payload) ==
    [title |-> payload["title"], description |-> payload["description"],
     price |-> payload["price"], category |-> payload["category"],
     in_stock |-> payload["in_stock"], image_url |-> None]

ProductUpdateFields == ProductCreateFields

CartItemValid(i) ==
    /\ {"product_id", "title", "price", "quantity"} \subseteq DOMAIN i
    /\ i["quantity"] >= 1

CustomerInfoValid(c) == {"name", "phone", "city", "address"} \subseteq DOMAIN c

OrderCreateValid(body) ==
    /\ {"items", "customer"} \subseteq DOMAIN body
    /\ \A n \in DOMAIN body["items"] : CartItemValid(body["items"][n])
    /\ CustomerInfoValid(body["customer"])
    /\ "payment_method" \in DOMAIN body => body["payment_method"] # None

\* CartItem.model_dump(): the declared fields only
CartItem(i) == Restrict(i, {"product_id", "title", "price", "quantity"})

\* CustomerInfo.model_dump()
CustomerInfo(c) ==
    Merge([notes |-> None], Restrict(c, {"name", "phone", "city", "address", "notes"}))

\* OrderCreate(**body)
OrderCreate(body) ==
    [items |-> [n \in DOMAIN body["items"] |-> CartItem(body["items"][n])],
     customer |-> CustomerInfo(body["customer"]),
     payment_method |-> IF "payment_method" \in DOMAIN body
                        THEN body["payment_method"] ELSE <<"COD">>]

OrderStatusUpdateFields == {"status", "tracking_note"}

OrderStatusUpdateValid(body) == "status" \in Given(body)

\* mutant: ProductUpdate.price without ge=0
ProductUpdateValid_mutant(body) == TRUE

ProductUpdateValid(body) ==
    "price" \in Given(body) => body["price"] >= 0

----------------------------------------------------------------------------
(* Requests and responses *)

NoReq == [handler |-> "none", key |-> None, id |-> None, body |-> EmptyBody,
          q |-> None, category |-> None, status |-> None]

Request(h, key, id, body) == [NoReq EXCEPT !.handler = h, !.key = key, !.id = id,
                                           !.body = body]

\* a response: the HTTP status, the shape of the body, and the documents in it
Response(code, kind, docs) == [status |-> code, kind |-> kind, body |-> docs]

HTTPException(code) == Response(code, "error", <<>>)

Unprocessable == HTTPException(422)     \* the body failed its schema

Answer(r, a) == req' = r /\ resp' = a

NoResp == Response(0, "none", <<>>)

\* no response is waiting to be sent: a handler can take its next step
Idle == req = NoReq

\* the handler r has written document oid and waits to read it back
Pending(r, oid) == SetToBag({[req |-> r, oid |-> oid]})

Suspend(r, oid) == inflight' = inflight (+) Pending(r, oid)

Resume(p) == inflight' = inflight (-) SetToBag({p})

CanSuspend == BagCardinality(inflight) < MaxInflight

----------------------------------------------------------------------------
(* Products *)

\* mutant: the listing does not filter on in_stock
ProductFilter_mutant(q, category) ==
    Merge(IF Truthy(q) THEN ("$or" :> q) ELSE EmptyBody,
          IF Truthy(category) THEN [category |-> category] ELSE EmptyBody)

\* filt of list_products
ProductFilter(q, category) ==
    Merge(Merge([in_stock |-> ("$ne" :> FALSE)],
                IF Truthy(q) THEN ("$or" :> q) ELSE EmptyBody),
          IF Truthy(category) THEN [category |-> category] ELSE EmptyBody)

list_products(q, category) ==
    /\ Idle
    /\ Answer([NoReq EXCEPT !.handler = "list_products", !.q = q, !.category = category],
              Response(200, "list",
                  LET docs == get_documents(product, ProductFilter(q, category))
                  IN  [i \in DOMAIN docs |-> serialize_doc(<<docs[i]>>)[1]]))
    /\ UNCHANGED <<product, order, nextOid, clock, inflight>>

get_product(product_id) ==
    /\ Idle
    /\ LET r == Request("get_product", None, product_id, EmptyBody) IN
       /\ IF ~IsObjectId(product_id) THEN Answer(r, HTTPException(400))
          ELSE LET doc == find_one(product, ObjectId(product_id)) IN
               IF doc = <<>> THEN Answer(r, HTTPException(404))
               ELSE Answer(r, Response(200, "doc", serialize_doc(doc)))
       /\ UNCHANGED <<product, order, nextOid, clock, inflight>>

\* the document create_product hands to create_document
NewProduct(payload) ==
    LET p == ProductSchema(payload) IN
    Merge(IF Truthy(payload["image_url"])
          THEN [p EXCEPT !["image_url"] = payload["image_url"]] ELSE p,
          [currency |-> payload["currency"]])

create_product(body, x_admin_key) ==
    /\ Idle
    /\ LET r == Request("create_product", x_admin_key, None, body) IN
       IF ~ProductCreateValid(body)
       THEN /\ Answer(r, Unprocessable)
            /\ UNCHANGED <<product, order, nextOid, clock, inflight>>
       ELSE IF ~require_admin(x_admin_key)
       THEN /\ Answer(r, HTTPException(401))
            /\ UNCHANGED <<product, order, nextOid, clock, inflight>>
       ELSE /\ clock < MaxClock
            /\ CanSuspend
            /\ ProductSchemaValid(ProductCreate(body))
            /\ product' = create_document(product, NewProduct(ProductCreate(body)),
                                          NewOid(nextOid + 1), clock)
            /\ nextOid' = nextOid + 1
            /\ Suspend(r, NewOid(nextOid + 1))
            /\ clock' = clock + 1
            /\ UNCHANGED <<order, req, resp>>

\* line 157-158: the re-read and the answer
create_product_read(p) ==
    /\ Idle
    /\ p.req.handler = "create_product"
    /\ Resume(p)
    /\ Answer(p.req, Response(200, "doc", serialize_doc(find_one(product, p.oid))))
    /\ UNCHANGED <<product, order, nextOid, clock>>

update_product(product_id, body, x_admin_key) ==
    /\ Idle
    /\ LET r == Request("update_product", x_admin_key, product_id, body)
           updates == model_dump_exclude_none(body, ProductUpdateFields)
       IN
       IF ~ProductUpdateValid(body)
       THEN /\ Answer(r, Unprocessable)
            /\ UNCHANGED <<product, order, nextOid, clock, inflight>>
       ELSE IF ~require_admin(x_admin_key)
       THEN /\ Answer(r, HTTPException(401))
            /\ UNCHANGED <<product, order, nextOid, clock, inflight>>
       ELSE IF DOMAIN updates = {}
       THEN /\ Answer(r, Response(200, "not_updated", <<>>))
            /\ UNCHANGED <<product, order, nextOid, clock, inflight>>
       ELSE IF ~IsObjectId(product_id)
       THEN /\ Answer(r, HTTPException(400))
            /\ UNCHANGED <<product, order, nextOid, clock, inflight>>
       ELSE IF matched_count(product, ObjectId(product_id)) = 0
       THEN /\ Answer(r, HTTPException(404))
            /\ UNCHANGED <<product, order, nextOid, clock, inflight>>
       ELSE /\ clock < MaxClock
            /\ CanSuspend
            /\ product' = update_one(product, ObjectId(product_id),
                                     Merge(updates, [updated_at |-> clock]))
            /\ Suspend(r, ObjectId(product_id))
            /\ clock' = clock + 1
            /\ UNCHANGED <<order, nextOid, req, resp>>

update_product_read(p) ==
    /\ Idle
    /\ p.req.handler = "update_product"
    /\ Resume(p)
    /\ Answer(p.req, Response(200, "doc", serialize_doc(find_one(product, p.oid))))
    /\ UNCHANGED <<product, order, nextOid, clock>>

delete_product(product_id, x_admin_key) ==
    /\ Idle
    /\ LET r == Request("delete_product", x_admin_key, product_id, EmptyBody) IN
       /\ IF ~require_admin(x_admin_key)
          THEN Answer(r, HTTPException(401)) /\ UNCHANGED product
          ELSE IF ~IsObjectId(product_id)
          THEN Answer(r, HTTPException(400)) /\ UNCHANGED product
          ELSE IF matched_count(product, ObjectId(product_id)) = 0
          THEN Answer(r, HTTPException(404)) /\ UNCHANGED product
          ELSE /\ product' = delete_one(product, ObjectId(product_id))
               /\ Answer(r, Response(200, "deleted", <<>>))
       /\ UNCHANGED <<order, nextOid, clock, inflight>>

----------------------------------------------------------------------------
(* Orders (COD) *)

RECURSIVE SumLines(_)
\* sum(i.price * i.quantity for i in items)
SumLines(items) ==
    IF items = <<>> THEN 0
    ELSE SumLines(SubSeq(items, 1, Len(items) - 1))
         + items[Len(items)]["price"] * items[Len(items)]["quantity"]

NewOrder(payload, now) ==
    [items |-> payload["items"],
     customer |-> payload["customer"],
     payment_method |-> <<"COD">>,
     status |-> <<"new">>,
     total |-> SumLines(payload["items"]),
     currency |-> <<"SYP">>,
     placed_at |-> now]

\* mutant: the cart is checked after the order is stored
create_order_mutant(body) ==
    /\ Idle
    /\ LET r == Request("create_order", None, None, body) IN
       IF ~OrderCreateValid(body)
       THEN /\ Answer(r, Unprocessable)
            /\ UNCHANGED <<product, order, nextOid, clock, inflight>>
       ELSE IF OrderCreate(body)["payment_method"] # <<"COD">>
       THEN /\ Answer(r, HTTPException(400))
            /\ UNCHANGED <<product, order, nextOid, clock, inflight>>
       ELSE /\ clock < MaxClock
            /\ order' = create_document(order, NewOrder(OrderCreate(body), clock),
                                        NewOid(nextOid + 1), clock)
            /\ nextOid' = nextOid + 1
            /\ clock' = clock + 1
            /\ IF Len(OrderCreate(body)["items"]) = 0
               THEN Answer(r, HTTPException(400)) /\ UNCHANGED inflight
               ELSE CanSuspend /\ Suspend(r, NewOid(nextOid + 1)) /\ UNCHANGED <<req, resp>>
            /\ UNCHANGED product

create_order(body) ==
    /\ Idle
    /\ LET r == Request("create_order", None, None, body) IN
       IF ~OrderCreateValid(body)
       THEN /\ Answer(r, Unprocessable)
            /\ UNCHANGED <<product, order, nextOid, clock, inflight>>
       ELSE IF OrderCreate(body)["payment_method"] # <<"COD">>
       THEN /\ Answer(r, HTTPException(400))
            /\ UNCHANGED <<product, order, nextOid, clock, inflight>>
       ELSE IF Len(OrderCreate(body)["items"]) = 0
       THEN /\ Answer(r, HTTPException(400))
            /\ UNCHANGED <<product, order, nextOid, clock, inflight>>
       ELSE /\ clock < MaxClock
            /\ CanSuspend
            /\ order' = create_document(order, NewOrder(OrderCreate(body), clock),
                                        NewOid(nextOid + 1), clock)
            /\ nextOid' = nextOid + 1
            /\ clock' = clock + 1
            /\ Suspend(r, NewOid(nextOid + 1))
            /\ UNCHANGED <<product, req, resp>>

create_order_read(p) ==
    /\ Idle
    /\ p.req.handler = "create_order"
    /\ Resume(p)
    /\ Answer(p.req, Response(200, "doc", serialize_doc(find_one(order, p.oid))))
    /\ UNCHANGED <<product, order, nextOid, clock>>

\* d.get("placed_at", datetime.utcnow())
PlacedAt(d) == IF "placed_at" \in DOMAIN d THEN d["placed_at"] ELSE clock

\* mutant: the listing is not sorted
SortNewestFirst_mutant(docs) == docs

RECURSIVE SortNewestFirst(_)
\* docs.sort(key=PlacedAt, reverse=True): stable, equal keys keep their order
SortNewestFirst(docs) ==
    IF docs = <<>> THEN <<>>
    ELSE LET rest == SortNewestFirst(SubSeq(docs, 1, Len(docs) - 1))
             x    == docs[Len(docs)]
             n    == Cardinality({i \in DOMAIN rest : PlacedAt(rest[i]) >= PlacedAt(x)})
         IN  SubSeq(rest, 1, n) \o <<x>> \o SubSeq(rest, n + 1, Len(rest))

\* filt of list_orders
OrderFilter(status) == IF Truthy(status) THEN [status |-> status] ELSE EmptyBody

list_orders(x_admin_key, status) ==
    /\ Idle
    /\ LET r == [NoReq EXCEPT !.handler = "list_orders", !.key = x_admin_key,
                              !.status = status] IN
       /\ IF ~require_admin(x_admin_key) THEN Answer(r, HTTPException(401))
          ELSE Answer(r, Response(200, "list",
                 LET docs == SortNewestFirst(
                                 get_documents(order, OrderFilter(status)))
                 IN  [i \in DOMAIN docs |-> serialize_doc(<<docs[i]>>)[1]]))
       /\ UNCHANGED <<product, order, nextOid, clock, inflight>>

get_order(order_id, x_admin_key) ==
    /\ Idle
    /\ LET r == Request("get_order", x_admin_key, order_id, EmptyBody) IN
       /\ IF ~require_admin(x_admin_key) THEN Answer(r, HTTPException(401))
          ELSE IF ~IsObjectId(order_id) THEN Answer(r, HTTPException(400))
          ELSE LET doc == find_one(order, ObjectId(order_id)) IN
               IF doc = <<>> THEN Answer(r, HTTPException(404))
               ELSE Answer(r, Response(200, "doc", serialize_doc(doc)))
       /\ UNCHANGED <<product, order, nextOid, clock, inflight>>

update_order(order_id, body, x_admin_key) ==
    /\ Idle
    /\ LET r == Request("update_order", x_admin_key, order_id, body)
           updates == model_dump_exclude_none(body, OrderStatusUpdateFields)
       IN
       IF ~OrderStatusUpdateValid(body)
       THEN /\ Answer(r, Unprocessable)
            /\ UNCHANGED <<product, order, nextOid, clock, inflight>>
       ELSE IF ~require_admin(x_admin_key)
       THEN /\ Answer(r, HTTPException(401))
            /\ UNCHANGED <<product, order, nextOid, clock, inflight>>
       ELSE IF ~IsObjectId(order_id)
       THEN /\ Answer(r, HTTPException(400))
            /\ UNCHANGED <<product, order, nextOid, clock, inflight>>
       ELSE IF matched_count(order, ObjectId(order_id)) = 0
       THEN /\ Answer(r, HTTPException(404))
            /\ UNCHANGED <<product, order, nextOid, clock, inflight>>
       ELSE /\ clock < MaxClock
            /\ CanSuspend
            /\ order' = update_one(order, ObjectId(order_id),
                                   Merge(updates, [updated_at |-> clock]))
            /\ Suspend(r, ObjectId(order_id))
            /\ clock' = clock + 1
            /\ UNCHANGED <<product, nextOid, req, resp>>

update_order_read(p) ==
    /\ Idle
    /\ p.req.handler = "update_order"
    /\ Resume(p)
    /\ Answer(p.req, Response(200, "doc", serialize_doc(find_one(order, p.oid))))
    /\ UNCHANGED <<product, order, nextOid, clock>>

\* the response goes out to the client
Deliver ==
    /\ ~Idle
    /\ req' = NoReq
    /\ resp' = NoResp
    /\ UNCHANGED <<product, order, nextOid, clock, inflight>>

----------------------------------------------------------------------------
(* The requests the clients send *)

Keys == {None, ADMIN_KEY, <<"guess">>}

IdStrs == {<<"0", "A">>, <<"0", "b">>, <<"z">>}

Queries == {None, <<"a">>}

Categories == {None, <<>>, <<"c">>}

Statuses == {None, <<>>, <<"new">>}

ProductCreateBodies ==
    { [title |-> <<"A", "b">>, price |-> 5, category |-> <<"c">>],
      [title |-> <<"b">>, description |-> <<"a">>, price |-> 0, category |-> <<"d">>,
       in_stock |-> FALSE, image_url |-> <<"u">>, currency |-> <<"USD">>],
      [title |-> <<"a">>, price |-> -1, category |-> <<"c">>],
      [price |-> 5, category |-> <<"c">>] }

ProductUpdateBodies ==
    { EmptyBody,
      [in_stock |-> FALSE, description |-> None],
      [price |-> 9, category |-> <<"d">>],
      [price |-> -1] }

Customer == [name |-> <<"n">>, phone |-> <<"p">>, city |-> <<"y">>, address |-> <<"s">>]

Line(price, quantity) ==
    [product_id |-> NewOid(1), title |-> <<"a">>, price |-> price, quantity |-> quantity]

OrderCreateBodies ==
    { [items |-> <<Line(2, 1), Line(3, 2)>>, customer |-> Customer,
       payment_method |-> <<"COD">>],
      [items |-> <<>>, customer |-> Customer],
      [items |-> <<Line(5, 2)>>, customer |-> Customer, payment_method |-> <<"CARD">>],
      [items |-> <<Line(5, 0)>>, customer |-> Customer] }

OrderStatusUpdateBodies ==
    { [status |-> <<"confirmed">>, tracking_note |-> None, total |-> 0],
      [status |-> <<>>, tracking_note |-> <<"t">>],
      [tracking_note |-> <<"t">>] }

----------------------------------------------------------------------------

Init ==
    /\ product = <<>>
    /\ order = <<>>
    /\ nextOid = 0
    /\ clock = 0
    /\ inflight = EmptyBag
    /\ req = NoReq
    /\ resp = NoResp

Next ==
    \/ Deliver
    \/ \E q \in Queries, c \in Categories : list_products(q, c)
    \/ \E id \in IdStrs : get_product(id)
    \/ \E b \in ProductCreateBodies, k \in Keys : create_product(b, k)
    \/ \E p \in BagToSet(inflight) : create_product_read(p)
    \/ \E id \in IdStrs, b \in ProductUpdateBodies, k \in Keys : update_product(id, b, k)
    \/ \E p \in BagToSet(inflight) : update_product_read(p)
    \/ \E id \in IdStrs, k \in Keys : delete_product(id, k)
    \/ \E b \in OrderCreateBodies : create_order(b)
    \/ \E p \in BagToSet(inflight) : create_order_read(p)
    \/ \E k \in Keys, st \in Statuses : list_orders(k, st)
    \/ \E id \in IdStrs, k \in Keys : get_order(id, k)
    \/ \E id \in IdStrs, b \in OrderStatusUpdateBodies, k \in Keys : update_order(id, b, k)
    \/ \E p \in BagToSet(inflight) : update_order_read(p)

Spec == Init /\ [][Next]_vars

----------------------------------------------------------------------------
(* Vocabulary of the properties *)

AdminGated == {"create_product", "update_product", "delete_product",
               "list_orders", "get_order", "update_order"}

\* this step answers a request
Answers == req = NoReq /\ req' # NoReq

\* this step answers a request that it handled from its start (no re-read)
AnswersAtOnce == Answers /\ inflight' = inflight

\* this step is the store write of the suspended handler p
Writes(p) == inflight' = inflight (+) SetToBag({p})

\* the body of request r passes the schema of its handler
SchemaValid(r) ==
    CASE r.handler = "create_product" -> ProductCreateValid(r.body)
      [] r.handler = "update_product" -> ProductUpdateValid(r.body)
      [] r.handler = "create_order" -> OrderCreateValid(r.body)
      [] r.handler = "update_order" -> OrderStatusUpdateValid(r.body)
      [] OTHER -> TRUE

Ids(coll) == {coll[i]["_id"] : i \in DOMAIN coll}

\* id_str is well formed and names a document of coll
Stored(coll, id_str) == IsObjectId(id_str) /\ Lower(id_str) \in Ids(coll)

\* the fields a partial-update body supplies with a value
Supplied(body, fields) == {k \in DOMAIN body \cap fields : k \notin TextKeys \/ body[k] # None}

\* document d1 is d0 with the keys ks (and updated_at) overwritten from body
\* at time now, and nothing else touched
Patched(d0, d1, body, ks, now) ==
    /\ DOMAIN d1 = DOMAIN d0 \cup ks \cup {"updated_at"}
    /\ \A k \in DOMAIN d0 \ (ks \cup {"updated_at"}) : d1[k] = d0[k]
    /\ \A k \in ks : d1[k] = body[k]
    /\ d1["updated_at"] = now

----------------------------------------------------------------------------
(* C1 *)

Unauthorized == Answers /\ req'.handler \in AdminGated /\ req'.key # ADMIN_KEY

\* C1 as stated: every admin-gated operation called with an absent or a wrong
\* admin key is answered Unauthorized and leaves both collections as they
\* were, whatever the id and the body.
C1_AsStated ==
    [][Unauthorized => resp'.status = 401 /\ product' = product /\ order' = order]_vars

\* C1 amended: every admin-gated operation called with an absent or a wrong
\* admin key leaves both collections as they were, whatever the id and the
\* body; it is answered Unauthorized when the body passes the handler's
\* schema, and invalid input (422) when it does not: the schema is checked
\* before the key.
C1_UnauthorizedNoChange ==
    [][Unauthorized =>
          /\ product' = product /\ order' = order /\ nextOid' = nextOid
          /\ inflight' = inflight
          /\ resp'.status = IF SchemaValid(req') THEN 401 ELSE 422]_vars

\* an update of a stored product, sent with a wrong key and a malformed id,
\* was answered Unauthorized
C1_Witness ==
    /\ req.handler = "update_product"
    /\ req.key = <<"guess">>
    /\ ~IsObjectId(req.id)
    /\ DOMAIN req.body # {}
    /\ resp.status = 401
    /\ product # <<>>

----------------------------------------------------------------------------
(* C2 *)

RawPaymentMethod(body) ==
    IF "payment_method" \in DOMAIN body THEN body["payment_method"] ELSE <<"COD">>

\* C2: an order creation with a payment method other than "COD", or with no
\* items, is answered Bad Request, and an order creation answered Bad Request
\* writes nothing: the order collection (and the product collection) is as
\* before and no handler is left waiting to read a document back.
C2_RejectedOrderNoWrite ==
    [][(Answers /\ req'.handler = "create_order" /\ SchemaValid(req')) =>
          /\ (RawPaymentMethod(req'.body) # <<"COD">> \/ req'.body["items"] = <<>>)
                 <=> resp'.status = 400
          /\ resp'.status = 400 =>
                 /\ order' = order /\ product' = product /\ nextOid' = nextOid
                 /\ inflight' = inflight]_vars

\* an order paid by card was refused while an order was stored
C2_Witness ==
    /\ req.handler = "create_order"
    /\ RawPaymentMethod(req.body) = <<"CARD">>
    /\ resp.status = 400
    /\ Len(order) = 1

----------------------------------------------------------------------------
(* C3 *)

\* C3: every stored order's total is the sum of price * quantity over its
\* stored items, and no step changes the total or the items of an order that
\* is already stored.
C3_TotalIsSumOfLines ==
    [][/\ \A i \in DOMAIN order' : order'[i]["total"] = SumLines(order'[i]["items"])
       /\ \A i \in DOMAIN order, j \in DOMAIN order' :
             order[i]["_id"] = order'[j]["_id"] =>
                /\ order'[j]["total"] = order[i]["total"]
                /\ order'[j]["items"] = order[i]["items"]]_vars

\* an order of two lines (2 * 1 + 3 * 2) keeps its total after a status
\* update that also carried a "total" key
C3_Witness ==
    \E i \in DOMAIN order :
        /\ Len(order[i]["items"]) = 2
        /\ order[i]["total"] = 8
        /\ order[i]["updated_at"] > order[i]["placed_at"]
        /\ req.handler = "update_order"
        /\ "total" \in DOMAIN req.body
        /\ resp.status = 200

----------------------------------------------------------------------------
(* C4 *)

\* C4: the store write of a successful product update changes, in the
\* addressed product, only the fields the request supplies with a value and
\* updated_at; every other field of it, every other product and every order
\* is as before.
C4_UpdateChangesOnlySupplied ==
    [][\A p \in BagToSet(inflight') :
          (Writes(p) /\ p.req.handler = "update_product") =>
             /\ order' = order
             /\ DOMAIN product' = DOMAIN product
             /\ p.oid \in Ids(product)
             /\ \A i \in DOMAIN product :
                   IF product[i]["_id"] = p.oid
                   THEN Patched(product[i], product'[i], p.req.body,
                                Supplied(p.req.body, ProductUpdateFields), clock)
                   ELSE product'[i] = product[i]]_vars

\* of two stored products, the one created as "Ab" at price 5 in category c
\* has just been updated with in_stock alone
C4_Witness ==
    \E p \in BagToSet(inflight) : \E i \in DOMAIN product :
        /\ p.req.handler = "update_product"
        /\ Supplied(p.req.body, ProductUpdateFields) = {"in_stock"}
        /\ Len(product) = 2
        /\ product[i]["_id"] = p.oid
        /\ product[i]["in_stock"] = FALSE
        /\ product[i]["title"] = <<"A", "b">>
        /\ product[i]["price"] = 5
        /\ product[i]["category"] = <<"c">>
        /\ product[i]["updated_at"] > product[i]["created_at"]

----------------------------------------------------------------------------
(* C5 *)

InStock == SelectSeq(product, LAMBDA d : d["in_stock"] # FALSE)

\* the listing answered is made of the stored documents docs, in their order
ListingOf(docs) ==
    /\ Len(resp.body) = Len(docs)
    /\ \A n \in DOMAIN docs :
          /\ resp.body[n]["id"] = docs[n]["_id"]
          /\ \A k \in DOMAIN docs[n] \ ({"_id"} \cup DateKeys) :
                resp.body[n][k] = docs[n][k]

Listed(category_given) ==
    req.handler = "list_products" =>
       /\ resp.status = 200
       /\ \A n \in DOMAIN resp.body :
             /\ resp.body[n]["in_stock"] # FALSE
             /\ resp.body[n]["id"] \in Ids(product)
       /\ (req.q = None /\ req.category = None) => ListingOf(InStock)
       /\ category_given =>
             \A n \in DOMAIN resp.body : resp.body[n]["category"] = req.category

\* C5 as stated: the listing without parameters is exactly the stored
\* products whose in_stock is not false, and when a category parameter is
\* given every product listed has exactly that category.
C5_AsStated == Listed(req.category # None)

\* C5 amended: the listing without parameters is exactly the stored products
\* whose in_stock is not false; when a non-empty category parameter is given
\* every product listed has exactly that category and is not out of stock (an
\* empty category parameter filters nothing).
C5_ListingFilter == Listed(req.category # None /\ req.category # <<>>)

\* two products in stock, one in category c and one in category d: the
\* listing for category c holds one of them
C5_Witness ==
    /\ req.handler = "list_products"
    /\ req.category = <<"c">>
    /\ Len(InStock) = 2
    /\ Len(resp.body) = 1
    /\ \E i \in DOMAIN product : product[i]["category"] = <<"d">>

----------------------------------------------------------------------------
(* C6 *)

AuthorizedUpdate ==
    /\ Answers
    /\ req'.handler = "update_product"
    /\ req'.key = ADMIN_KEY
    /\ SchemaValid(req')

ZeroFields(body) == Supplied(body, ProductUpdateFields) = {}

\* C6 as stated: an authorized product update of an id that matches no
\* stored product is answered Not Found, and of a malformed id Bad Request,
\* for every body; the no-op answer is given only to a zero-field body and
\* with the store unchanged.
C6_AsStated ==
    [][(AuthorizedUpdate /\ inflight' = inflight) =>
          /\ ~IsObjectId(req'.id) => resp'.status = 400
          /\ (IsObjectId(req'.id) /\ ~Stored(product, req'.id)) => resp'.status = 404
          /\ resp'.kind = "not_updated" =>
                 ZeroFields(req'.body) /\ product' = product /\ order' = order]_vars

\* C6 amended: an authorized product update whose body supplies at least one
\* field is answered Not Found when its id matches no stored product and
\* Bad Request when its id is malformed, and writes only to a stored product;
\* a zero-field body is answered with the no-op {updated: false} whatever
\* the id (unknown and malformed ones included); the no-op answer is given
\* only to a zero-field body and the store is unchanged by it.
C6_NotFoundUnlessNoOp ==
    [][/\ (AuthorizedUpdate /\ inflight' = inflight) =>
             /\ product' = product /\ order' = order
             /\ IF ZeroFields(req'.body)
                THEN resp'.status = 200 /\ resp'.kind = "not_updated"
                ELSE /\ ~Stored(product, req'.id)
                     /\ resp'.status = IF IsObjectId(req'.id) THEN 404 ELSE 400
       /\ (AuthorizedUpdate /\ inflight' # inflight) => resp'.kind = "doc"
       /\ \A p \in BagToSet(inflight') :
             (Writes(p) /\ p.req.handler = "update_product") =>
                Stored(product, p.req.id) /\ ~ZeroFields(p.req.body)]_vars

\* with a product stored, an authorized update of a well-formed id that
\* matches none was answered Not Found
C6_Witness ==
    /\ req.handler = "update_product"
    /\ req.key = ADMIN_KEY
    /\ ~ZeroFields(req.body)
    /\ IsObjectId(req.id)
    /\ ~Stored(product, req.id)
    /\ product # <<>>
    /\ resp.status = 404

----------------------------------------------------------------------------
(* C7 *)

AuthorizedOrderUpdate ==
    /\ AnswersAtOnce
    /\ req'.handler = "update_order"
    /\ req'.key = ADMIN_KEY
    /\ Stored(order, req'.id)

----------------------------------------------------------------------------
(* C8 *)

NewestFirst ==
    \A n \in 1 .. (Len(resp.body) - 1) :
        resp.body[n]["placed_at"][2] >= resp.body[n + 1]["placed_at"][2]

\* the listing answered holds the stored orders of the status asked for when
\* status_given, and all stored orders otherwise, each once, newest first
OrdersListed(status_given) ==
    (req.handler = "list_orders" /\ req.key = ADMIN_KEY) =>
       LET asked == {j \in DOMAIN order : status_given => order[j]["status"] = req.status}
       IN  /\ resp.status = 200
           /\ NewestFirst
           /\ {resp.body[n]["id"] : n \in DOMAIN resp.body} = {order[j]["_id"] : j \in asked}
           /\ Len(resp.body) = Cardinality(asked)

\* C8 as stated: an authorized order listing returns the stored orders whose
\* status equals the status parameter (all of them when none is given),
\* newest first.
C8_AsStated ==
    OrdersListed(req.status # None)

\* C8 amended: an authorized order listing returns the stored orders whose
\* status equals the status parameter when that parameter is non-empty, and
\* all stored orders when it is absent or empty, in non-increasing order of
\* placed_at.
C8_NewestFirst ==
    OrdersListed(req.status # None /\ req.status # <<>>)

\* two new orders placed at different times are listed under status=new,
\* the later one first
C8_Witness ==
    /\ req.handler = "list_orders"
    /\ req.status = <<"new">>
    /\ Len(resp.body) = 2
    /\ resp.body[1]["placed_at"][2] > resp.body[2]["placed_at"][2]

----------------------------------------------------------------------------
(* C9 *)

PriceWritten(oid) ==
    \E p \in BagToSet(inflight') :
        /\ Writes(p)
        /\ p.oid = oid
        /\ \/ p.req.handler = "create_product"
           \/ /\ p.req.handler = "update_product"
              /\ "price" \in Supplied(p.req.body, ProductUpdateFields)

NegativePriceSent ==
    /\ Answers
    /\ req'.handler \in {"create_product", "update_product"}
    /\ "price" \in DOMAIN req'.body
    /\ req'.body["price"] < 0

\* the product that is j-th after the step was stored before it at this price
PriceKept(j) ==
    \E i \in DOMAIN product :
        /\ product[i]["_id"] = product'[j]["_id"]
        /\ product[i]["price"] = product'[j]["price"]

\* C9: every stored product has price >= 0; a product creation or update
\* that carries a negative price is answered invalid input and writes
\* nothing; and a product's price is set only by its creation and by an
\* update of it that supplies a price.
C9_PriceNeverNegative ==
    /\ [](\A i \in DOMAIN product : product[i]["price"] >= 0)
    /\ [][/\ NegativePriceSent =>
                 (resp'.status = 422 /\ product' = product /\ inflight' = inflight)
           /\ \A j \in DOMAIN product' :
                 PriceKept(j) \/ PriceWritten(product'[j]["_id"])]_vars

\* an authorized update of a stored product to price -1 was refused
C9_Witness ==
    /\ req.handler = "update_product"
    /\ req.key = ADMIN_KEY
    /\ Stored(product, req.id)
    /\ "price" \in DOMAIN req.body
    /\ req.body["price"] < 0
    /\ resp.status = 422

----------------------------------------------------------------------------
(* C10 *)

\* C10 as stated: a product update answered without an error, other than
\* the zero-field no-op, is answered with the serialized document of the
\* addressed id holding the fields the request supplied, whatever ran
\* between its store write and its re-read.
C10_AsStated ==
    (req.handler = "update_product" /\ resp.status = 200 /\ resp.kind # "not_updated") =>
       /\ resp.body # <<>>
       /\ resp.body[1]["id"] = Lower(req.id)
       /\ \A k \in Supplied(req.body, ProductUpdateFields) :
             resp.body[1][k] = req.body[k]

====
